---- MODULE Spec2Model ----
(***************************************************************************)
(* Model of package lambdamux (jasdel/aws-lambda-mux):                     *)
(*   - ServeResource / ServeMethod, the two routers of                     *)
(*     apigateway_handler.go, with their Handle and ServeResource methods; *)
(*   - APIGatewayProxy.Invoke, which decodes the event, calls the handler  *)
(*     and encodes its response;                                           *)
(*   - timeoutHandler.ServeResource of timeout_handler.go, at the grain of *)
(*     the steps of its two goroutines: called once, called by two         *)
(*     goroutines at once, and wrapped around another timeoutHandler.      *)
(* A Go string is a sequence of one-character strings, so that             *)
(* strings.ToUpper is computed character by character.                     *)
(***************************************************************************)
EXTENDS Integers, Sequences, FiniteSets, TLC

VARIABLES
    resources,  \* ServeResource.resources of every resource router
    methods,    \* ServeMethod.methods of every method router
    regLog,     \* history: the Handle calls made so far, in order
    last,       \* the most recent router operation, its arguments and what it returned
    wrapper,    \* the timeoutHandler value: its Timeout and its Handler
    now,        \* the clock
    pc,         \* where each timeoutHandler.ServeResource call stands
    gpc,        \* where the goroutine each call starts stands
    parent,     \* the context each call receives: its kind and its Err()
    ctxErr,     \* Err() of the context each call derives; Done() is closed once it is set
    deadline,   \* the deadline of the derived context
    done,       \* whether the done channel of the call is closed
    resp,       \* the named result resp, shared with the goroutine
    err,        \* the named result err, shared with the goroutine
    herr,       \* the error the wrapped handler returned, until the goroutine stores it
    sel,        \* history: the branch the select took and what was ready then
    hret,       \* history: what the wrapped handler returned, and whether ctx was done at close(done)
    out,        \* what the caller receives
    inner,      \* the timeoutHandler value that wrapper wraps, when it wraps one
    caller,     \* who made each call: the program, or the goroutine of another call
    ownTimer    \* whether the context each call derives has a timer of its own

routerVars == <<resources, methods, regLog, last>>

timeoutVars ==
    <<wrapper, now, pc, gpc, parent, ctxErr, deadline, done, resp, err, herr, sel, hret, out,
      inner, caller, ownTimer>>

vars == <<routerVars, timeoutVars>>

(***************************************************************************)
(* Bounds                                                                  *)
(***************************************************************************)
MaxHandles == 3
MaxTime == 3
MaxTimeout == 2

(***************************************************************************)
(* Strings                                                                 *)
(***************************************************************************)
LowerLetters ==
    <<"a", "b", "c", "d", "e", "f", "g", "h", "i", "j", "k", "l", "m",
      "n", "o", "p", "q", "r", "s", "t", "u", "v", "w", "x", "y", "z">>

UpperLetters ==
    <<"A", "B", "C", "D", "E", "F", "G", "H", "I", "J", "K", "L", "M",
      "N", "O", "P", "Q", "R", "S", "T", "U", "V", "W", "X", "Y", "Z">>

ToUpperChar(c) ==
    IF \E i \in DOMAIN LowerLetters : LowerLetters[i] = c
    THEN UpperLetters[CHOOSE i \in DOMAIN LowerLetters : LowerLetters[i] = c]
    ELSE c

\* strings.ToUpper
ToUpper(s) == [i \in DOMAIN s |-> ToUpperChar(s[i])]

\* The resource identifiers and HTTP methods the operations are tried with.
ResOrders == <<"/", "o", "r", "d", "e", "r", "s">>
ResItemsCap == <<"/", "I", "t", "e", "m", "s">>
ResItems == <<"/", "i", "t", "e", "m", "s">>
ResUnknown == <<"/", "u", "n", "k", "n", "o", "w", "n">>

MethGetLower == <<"g", "e", "t">>
MethGetUpper == <<"G", "E", "T">>
MethPostUpper == <<"P", "O", "S", "T">>

RegisteredResources == {ResOrders, ResItemsCap}
RequestResources == {ResOrders, ResItemsCap, ResItems, ResUnknown}
RegisteredMethods == {MethGetLower, MethGetUpper}
RequestMethods == {MethGetLower, MethGetUpper, MethPostUpper}

(***************************************************************************)
(* Values                                                                  *)
(***************************************************************************)
Nil == "nil"

\* fmt.Errorf(format, args...): the format and the values it is applied to.
Errorf(format, args) == [fmt |-> format, args |-> args]

\* The nil error.
NoError == [fmt |-> "<nil>", args |-> <<>>]

\* The error of the failing leaf handler.
LeafFailure == Errorf("leaf failure", <<>>)

\* The zero value of APIGatewayProxyResponse.
EmptyResponse == [StatusCode |-> 0, Body |-> "", HTTPHeader |-> Nil]

\* The context a caller passes to a router.
Contexts == {"ctxA"}

Requests == [Resource : RequestResources, HTTPMethod : RequestMethods]

\* Handlers: two routers and the leaf handlers (ResourceHandlerFunc values).
ResourceRouters == {"rr"}
MethodRouters == {"mr"}
Leaves == {"leafOK", "leafFail"}

\* A handler a router may hold: nesting is kept acyclic (a router that holds
\* itself never returns from ServeResource).
Registrable(s) ==
    IF s \in ResourceRouters THEN MethodRouters \cup Leaves ELSE Leaves

\* A leaf handler: leafOK answers 200 with no error, leafFail answers a
\* response together with an error.
LeafServe(h, ctx, req) ==
    IF h = "leafOK"
    THEN [resp |-> [StatusCode |-> 200, Body |-> "ok", HTTPHeader |-> Nil],
          err |-> NoError]
    ELSE [resp |-> [StatusCode |-> 500, Body |-> "failed", HTTPHeader |-> Nil],
          err |-> LeafFailure]


\* m[k] = v of a Go map
MapPut(m, k, v) == [x \in DOMAIN m \cup {k} |-> IF x = k THEN v ELSE m[x]]

EmptyMap == [x \in {} |-> Nil]

(***************************************************************************)
(* Dispatch.  The result of a ServeResource call is its response, its      *)
(* error and the calls it made, each with the router that made it, the     *)
(* arguments passed and what the callee returned.                          *)
(***************************************************************************)
RECURSIVE Serve(_, _, _)

\* Delegate with the callee's error wrapped before it is returned.
DelegateWrapsError(s, h, ctx, req) ==
    LET r == Serve(h, ctx, req)
    IN [resp |-> r.resp,
        err |-> IF r.err = NoError THEN NoError ELSE Errorf("handler failed: %w", <<r.err>>),
        calls |-> <<[by |-> s, handler |-> h, ctx |-> ctx, req |-> req,
                     resp |-> r.resp, err |-> r.err]>> \o r.calls]

Delegate(s, h, ctx, req) ==
    LET r == Serve(h, ctx, req)
    IN [resp |-> r.resp, err |-> r.err,
        calls |-> <<[by |-> s, handler |-> h, ctx |-> ctx, req |-> req,
                     resp |-> r.resp, err |-> r.err]>> \o r.calls]

\* The key ServeResource.ServeResource looks up.
ResourceLookupKey(req) == req.Resource

\* The key ServeMethod.ServeResource looks up.
MethodLookupKey(req) == req.HTTPMethod

\* ServeResource.ServeResource with a miss error that names the method only.
ServeResourceServeResourceMissUnnamed(s, ctx, req) ==
    IF ResourceLookupKey(req) \notin DOMAIN resources[s]
    THEN [resp |-> EmptyResponse,
          err |-> Errorf("resource handler not found for %s", <<req.HTTPMethod>>),
          calls |-> <<>>]
    ELSE Delegate(s, resources[s][ResourceLookupKey(req)], ctx, req)

\* ServeResource.ServeResource matching keys with strings.EqualFold.
ServeResourceServeResourceFold(s, ctx, req) ==
    LET hits == {k \in DOMAIN resources[s] : ToUpper(k) = ToUpper(req.Resource)}
    IN IF hits = {}
       THEN [resp |-> EmptyResponse,
             err |-> Errorf("resource handler not found for %s", <<req.Resource>>),
             calls |-> <<>>]
       ELSE Delegate(s, resources[s][CHOOSE k \in hits : TRUE], ctx, req)

\* func (s *ServeResource) ServeResource
ServeResourceServeResource(s, ctx, req) ==
    IF ResourceLookupKey(req) \notin DOMAIN resources[s]
    THEN [resp |-> EmptyResponse,
          err |-> Errorf("resource handler not found for %s", <<req.Resource>>),
          calls |-> <<>>]
    ELSE Delegate(s, resources[s][ResourceLookupKey(req)], ctx, req)

\* ServeMethod.ServeResource with a miss error that leaves the resource out.
ServeMethodServeResourceMissOmitsResource(s, ctx, req) ==
    IF MethodLookupKey(req) \notin DOMAIN methods[s]
    THEN [resp |-> EmptyResponse,
          err |-> Errorf("method handler not found for %s", <<req.HTTPMethod>>),
          calls |-> <<>>]
    ELSE Delegate(s, methods[s][MethodLookupKey(req)], ctx, req)

\* func (s *ServeMethod) ServeResource
ServeMethodServeResource(s, ctx, req) ==
    IF MethodLookupKey(req) \notin DOMAIN methods[s]
    THEN [resp |-> EmptyResponse,
          err |-> Errorf("method handler not found for %s:%s",
                         <<req.Resource, req.HTTPMethod>>),
          calls |-> <<>>]
    ELSE Delegate(s, methods[s][MethodLookupKey(req)], ctx, req)

\* func (f ResourceHandlerFunc) ServeResource
ResourceHandlerFuncServeResource(f, ctx, req) ==
    LET r == LeafServe(f, ctx, req)
    IN [resp |-> r.resp, err |-> r.err, calls |-> <<>>]

\* ResourceHandler.ServeResource, by the dynamic type of h
Serve(h, ctx, req) ==
    IF h \in ResourceRouters THEN ServeResourceServeResource(h, ctx, req)
    ELSE IF h \in MethodRouters THEN ServeMethodServeResource(h, ctx, req)
    ELSE ResourceHandlerFuncServeResource(h, ctx, req)

(***************************************************************************)
(* Registration                                                            *)
(***************************************************************************)
\* The key ServeResource.Handle stores under.
ResourceStoreKey(resource) == resource

\* ServeMethod.Handle storing under the method as given.
MethodStoreKeyAsGiven(method) == method

\* The key ServeMethod.Handle stores under.
MethodStoreKey(method) == ToUpper(method)

\* ServeResource.Handle starting a fresh map for the entry.
ResourceStoreDropsOthers(m, resource, handler) ==
    MapPut(EmptyMap, ResourceStoreKey(resource), handler)

\* The map ServeResource.Handle leaves behind.
ResourceStore(m, resource, handler) == MapPut(m, ResourceStoreKey(resource), handler)

\* ServeMethod.Handle keeping an entry that is already there.
MethodStoreKeepsFirst(m, method, handler) ==
    IF MethodStoreKey(method) \in DOMAIN m THEN m
    ELSE MapPut(m, MethodStoreKey(method), handler)

\* The map ServeMethod.Handle leaves behind.
MethodStore(m, method, handler) == MapPut(m, MethodStoreKey(method), handler)

HandleOp(s, key, handler) ==
    [kind |-> "Handle", router |-> s, key |-> key, handler |-> handler, returned |-> s]

\* func (s *ServeResource) Handle
ServeResourceHandle(s, resource, handler) ==
    /\ Len(regLog) < MaxHandles
    /\ resources' = [resources EXCEPT ![s] = ResourceStore(@, resource, handler)]
    /\ regLog' = Append(regLog, [router |-> s, key |-> resource, handler |-> handler])
    /\ last' = HandleOp(s, resource, handler)
    /\ UNCHANGED <<methods, timeoutVars>>

\* func (s *ServeMethod) Handle
ServeMethodHandle(s, method, handler) ==
    /\ Len(regLog) < MaxHandles
    /\ methods' = [methods EXCEPT ![s] = MethodStore(@, method, handler)]
    /\ regLog' = Append(regLog, [router |-> s, key |-> method, handler |-> handler])
    /\ last' = HandleOp(s, method, handler)
    /\ UNCHANGED <<resources, timeoutVars>>

\* The routers that serve a dispatch to top: top and the routers called below it.
Serving(top, ctx, req) ==
    LET calls == Serve(top, ctx, req).calls
    IN {top} \cup {calls[i].handler : i \in DOMAIN calls}

\* A map read that stores the zero value under a key it does not find.
MapAfterLookupInserts(m, k) == IF k \in DOMAIN m THEN m ELSE MapPut(m, k, Nil)

\* The map a comma-ok read h, ok := m[k] leaves behind.
MapAfterLookup(m, k) == m

\* Every router that serves a dispatch to top reads its map once.
ReadRegistries(top, ctx, req) ==
    /\ resources' = [s \in ResourceRouters |->
                        IF s \in Serving(top, ctx, req)
                        THEN MapAfterLookup(resources[s], ResourceLookupKey(req))
                        ELSE resources[s]]
    /\ methods' = [s \in MethodRouters |->
                      IF s \in Serving(top, ctx, req)
                      THEN MapAfterLookup(methods[s], MethodLookupKey(req))
                      ELSE methods[s]]

\* A caller (a test, or another handler) dispatching a request to a router.
Dispatch(top, ctx, req) ==
    /\ last' = [kind |-> "Dispatch", top |-> top, ctx |-> ctx, req |-> req,
                out |-> Serve(top, ctx, req)]
    /\ ReadRegistries(top, ctx, req)
    /\ UNCHANGED <<regLog, timeoutVars>>

(***************************************************************************)
(* APIGatewayProxy.Invoke.  A payload is the JSON text the Lambda runtime   *)
(* hands over: text that is not JSON, a JSON value of another type than an *)
(* object, or an object with the fields of the event.                      *)
(***************************************************************************)
MalformedPayload == [json |-> "malformed"]
ArrayPayload == [json |-> "array"]

ObjectPayloads ==
    {[json |-> "object", resource |-> r, httpMethod |-> m] :
        r \in {ResOrders, ResUnknown}, m \in {MethGetUpper, MethGetLower}}

Payloads == {MalformedPayload, ArrayPayload} \cup ObjectPayloads

\* No output payload.
NilPayload == [json |-> "nil"]

\* The handlers an APIGatewayProxy is built with.
ProxyHandlers == ResourceRouters \cup MethodRouters \cup Leaves

\* json.Unmarshal(payload, &req), through APIGatewayProxyRequest.UnmarshalJSON
Unmarshal(payload) ==
    IF payload.json = "malformed"
    THEN [req |-> [Resource |-> <<>>, HTTPMethod |-> <<>>],
          err |-> Errorf("invalid character", <<>>)]
    ELSE IF payload.json # "object"
    THEN [req |-> [Resource |-> <<>>, HTTPMethod |-> <<>>],
          err |-> Errorf("json: cannot unmarshal %s into Go value of type %s",
                         <<payload.json, "events.APIGatewayProxyRequest">>)]
    ELSE [req |-> [Resource |-> payload.resource, HTTPMethod |-> payload.httpMethod],
          err |-> NoError]

\* json.Marshal(resp), through APIGatewayProxyResponse.MarshalJSON
Marshal(r) ==
    [json |-> "object", statusCode |-> r.StatusCode, body |-> r.Body,
     multiValueHeaders |-> r.HTTPHeader]

\* Invoke going on to the handler with the zero request after a decode error.
APIGatewayProxyInvokeIgnoresDecodeError(p, ctx, payload) ==
    LET d == Unmarshal(payload)
        r == Delegate("proxy", p, ctx, d.req)
    IN IF r.err # NoError
       THEN [out |-> NilPayload, err |-> r.err, calls |-> r.calls, req |-> d.req]
       ELSE [out |-> Marshal(r.resp), err |-> NoError, calls |-> r.calls, req |-> d.req]

\* func (p APIGatewayProxy) Invoke
APIGatewayProxyInvoke(p, ctx, payload) ==
    LET d == Unmarshal(payload)
        r == Delegate("proxy", p, ctx, d.req)
    IN IF d.err # NoError
       THEN [out |-> NilPayload,
             err |-> Errorf("invalid lambda event, expect %T, %w",
                            <<"lambdamux.APIGatewayProxyRequest", d.err>>),
             calls |-> <<>>, req |-> d.req]
       ELSE IF r.err # NoError
       THEN [out |-> NilPayload, err |-> r.err, calls |-> r.calls, req |-> d.req]
       ELSE [out |-> Marshal(r.resp), err |-> NoError, calls |-> r.calls, req |-> d.req]

\* The Lambda runtime invoking the proxy with a payload.
Invoke(p, ctx, payload) ==
    LET inv == APIGatewayProxyInvoke(p, ctx, payload)
    IN /\ last' = [kind |-> "Invoke", top |-> p, ctx |-> ctx, payload |-> payload,
                   out |-> inv]
       /\ IF inv.calls = <<>>
          THEN UNCHANGED <<resources, methods>>
          ELSE ReadRegistries(p, ctx, inv.req)
       /\ UNCHANGED <<regLog, timeoutVars>>

NoOp == [kind |-> "None"]

\* NewServeResource, NewServeMethod
RouterInit ==
    /\ resources = [s \in ResourceRouters |-> EmptyMap]
    /\ methods = [s \in MethodRouters |-> EmptyMap]
    /\ regLog = <<>>
    /\ last = NoOp

RouterNext ==
    \/ \E s \in ResourceRouters, resource \in RegisteredResources :
          \E h \in Registrable(s) : ServeResourceHandle(s, resource, h)
    \/ \E s \in MethodRouters, method \in RegisteredMethods :
          \E h \in Registrable(s) : ServeMethodHandle(s, method, h)
    \/ \E top \in ResourceRouters \cup MethodRouters, ctx \in Contexts, req \in Requests :
          Dispatch(top, ctx, req)

\* The routers built and then invoked through the proxy.
InvokeNext ==
    \/ \E s \in ResourceRouters, resource \in RegisteredResources :
          \E h \in Registrable(s) : ServeResourceHandle(s, resource, h)
    \/ \E s \in MethodRouters, method \in RegisteredMethods :
          \E h \in Registrable(s) : ServeMethodHandle(s, method, h)
    \/ \E p \in ProxyHandlers, ctx \in Contexts, payload \in Payloads :
          Invoke(p, ctx, payload)

(***************************************************************************)
(* timeoutHandler.  A call of ServeResource runs two goroutines: the       *)
(* caller's, which derives the context, starts the other and selects, and  *)
(* the started one, which runs the wrapped handler and stores what it      *)
(* returns in the named results resp and err of the call.  Those two       *)
(* variables are shared: the return statement of the caller's goroutine    *)
(* stores into them, the deferred cancelFn runs, and only then are they    *)
(* read as the values the caller receives.                                 *)
(***************************************************************************)
Calls == {"c1", "c2"}

\* The call a program makes when it makes one call only.
Solo == {"c1"}

\* Who makes a call: the program, or nobody yet.
External == "external"
NoCaller == "none"

\* context.DeadlineExceeded and context.Canceled
DeadlineExceeded == Errorf("context deadline exceeded", <<>>)
Canceled == Errorf("context canceled", <<>>)

\* The durations a wrapper is built with.
Durations == 0..MaxTimeout

\* The wrapped handlers: one that returns, one that never does.
WrappedHandlers == {"returns", "never"}

\* What a wrapped handler may return.
HandlerResponses == {EmptyResponse, [StatusCode |-> 200, Body |-> "ok", HTTPHeader |-> Nil]}
HandlerErrors == {NoError, LeafFailure}

\* The contexts a caller passes: context.Background(), or one the caller can
\* cancel, cancelled already or not.
ParentContexts ==
    {[kind |-> "background", err |-> NoError],
     [kind |-> "cancelable", err |-> NoError],
     [kind |-> "cancelable", err |-> Canceled]}

NoWrapper == [Timeout |-> 0, Handler |-> Nil]
NoSelect == [branch |-> Nil, ctxReady |-> FALSE, doneReady |-> FALSE]
NoReturn == [resp |-> EmptyResponse, err |-> NoError, returned |-> FALSE, ctxDoneAtClose |-> FALSE]
NoOut == [resp |-> EmptyResponse, err |-> NoError]

\* func ResourceHandlerWithTimeout
ResourceHandlerWithTimeout(dur, handler) ==
    /\ wrapper = NoWrapper
    /\ wrapper' = [Timeout |-> dur, Handler |-> handler]
    /\ UNCHANGED <<now, pc, gpc, parent, ctxErr, deadline, done, resp, err, herr, sel, hret, out,
                   inner, caller, ownTimer>>
    /\ UNCHANGED routerVars

\* ResourceHandlerWithTimeout(d1, ResourceHandlerWithTimeout(d2, handler)): a
\* wrapper whose Handler is another wrapper.
NestedResourceHandlerWithTimeout(d1, d2, handler) ==
    /\ wrapper = NoWrapper
    /\ inner' = [Timeout |-> d2, Handler |-> handler]
    /\ wrapper' = [Timeout |-> d1, Handler |-> "inner"]
    /\ UNCHANGED <<now, pc, gpc, parent, ctxErr, deadline, done, resp, err, herr, sel, hret, out,
                   caller, ownTimer>>
    /\ UNCHANGED routerVars

\* The receiver h of a call.
WrapperOf(c) == IF caller[c] \in Calls THEN inner ELSE wrapper

\* Err() of the context context.WithTimeout(p, dur) returns, as it returns.
WithTimeoutErr(p, dur) ==
    IF p.err # NoError THEN p.err
    ELSE IF dur <= 0 THEN DeadlineExceeded
    ELSE NoError

\* A derived context that keeps the timeout it is given, whatever deadline
\* the context it derives from has.
WithTimeoutDeadlineOwn(by, dur) == now + dur

\* Deadline() of the context context.WithTimeout returns: the deadline of the
\* context it derives from when that one is earlier.  Only the context of
\* another call has a deadline.
WithTimeoutDeadline(by, dur) ==
    IF by \in Calls /\ deadline[by] < now + dur THEN deadline[by] ELSE now + dur

\* context.WithTimeout arms no timer when the context it derives from has an
\* earlier deadline.
WithTimeoutTimer(by, dur) == ~(by \in Calls /\ deadline[by] < now + dur)

\* ServeResource of h up to its select, called by `by` with context p: the
\* context is derived, cancelFn deferred, done made and the goroutine started.
Enter(c, p, h, by) ==
    /\ parent' = [parent EXCEPT ![c] = p]
    /\ ctxErr' = [ctxErr EXCEPT ![c] = WithTimeoutErr(p, h.Timeout)]
    /\ deadline' = [deadline EXCEPT ![c] = WithTimeoutDeadline(by, h.Timeout)]
    /\ ownTimer' = [ownTimer EXCEPT ![c] = WithTimeoutTimer(by, h.Timeout)]
    /\ caller' = [caller EXCEPT ![c] = by]
    /\ resp' = [resp EXCEPT ![c] = EmptyResponse]
    /\ err' = [err EXCEPT ![c] = NoError]
    /\ pc' = [pc EXCEPT ![c] = "select"]

\* A program calls ServeResource of wrapper.
Start(c, p) ==
    /\ wrapper # NoWrapper
    /\ pc[c] = "idle"
    /\ now + wrapper.Timeout <= MaxTime
    /\ Enter(c, p, wrapper, External)
    /\ gpc' = [gpc EXCEPT ![c] = "running"]
    /\ UNCHANGED <<wrapper, now, done, herr, sel, hret, out, inner>>
    /\ UNCHANGED routerVars

\* Err() of every derived context once that of call c has become e: cancelling
\* a context cancels the contexts derived from it that are not done yet.
Propagate(c, e) ==
    [d \in Calls |->
        IF d = c THEN e
        ELSE IF caller[d] = c /\ ctxErr[d] = NoError THEN e
        ELSE ctxErr[d]]

\* The contexts the calls received once Err() of call c's context has become e.
Received(c, e) ==
    [d \in Calls |->
        IF caller[d] = c /\ parent[d].err = NoError THEN [parent[d] EXCEPT !.err = e]
        ELSE parent[d]]

\* The clock advances.
Tick ==
    /\ now < MaxTime
    /\ now' = now + 1
    /\ UNCHANGED <<wrapper, pc, gpc, parent, ctxErr, deadline, done, resp, err, herr,
                   sel, hret, out, inner, caller, ownTimer>>
    /\ UNCHANGED routerVars

\* The timer of the derived context fires.
TimerFire(c) ==
    /\ pc[c] # "idle"
    /\ ctxErr[c] = NoError
    /\ ownTimer[c]
    /\ now >= deadline[c]
    /\ ctxErr' = Propagate(c, DeadlineExceeded)
    /\ parent' = Received(c, DeadlineExceeded)
    /\ UNCHANGED <<wrapper, now, pc, gpc, deadline, done, resp, err, herr, sel,
                   hret, out, inner, caller, ownTimer>>
    /\ UNCHANGED routerVars

\* Err() of the derived context of call c once the context it derives from is
\* cancelled: the first cancellation stays.
CanceledWithParent(c) == IF ctxErr[c] = NoError THEN Canceled ELSE ctxErr[c]

\* The caller cancels the context it passed; the derived context is cancelled with it.
ParentCancel(c) ==
    /\ pc[c] # "idle"
    /\ parent[c].kind = "cancelable"
    /\ parent[c].err = NoError
    /\ parent' = [Received(c, CanceledWithParent(c)) EXCEPT ![c].err = Canceled]
    /\ ctxErr' = Propagate(c, CanceledWithParent(c))
    /\ UNCHANGED <<wrapper, now, pc, gpc, deadline, done, resp, err, herr, sel, hret,
                   out, inner, caller, ownTimer>>
    /\ UNCHANGED routerVars

\* The goroutine storing what the handler returned in results that belong to
\* the handler value, shared by every call of it.
GoAssignRespShared(c, r, e) ==
    /\ gpc[c] = "running"
    /\ WrapperOf(c).Handler = "returns"
    /\ resp' = [d \in Calls |-> r]
    /\ herr' = [d \in Calls |-> e]
    /\ hret' = [hret EXCEPT ![c] = [resp |-> r, err |-> e, returned |-> TRUE,
                                    ctxDoneAtClose |-> FALSE]]
    /\ gpc' = [gpc EXCEPT ![c] = "assignErr"]
    /\ UNCHANGED <<wrapper, now, pc, parent, ctxErr, deadline, done, err, sel, out,
                   inner, caller, ownTimer>>
    /\ UNCHANGED routerVars

\* The goroutine: h.Handler.ServeResource returns (r, e) and resp is assigned.
GoAssignResp(c, r, e) ==
    /\ gpc[c] = "running"
    /\ WrapperOf(c).Handler = "returns"
    /\ resp' = [resp EXCEPT ![c] = r]
    /\ herr' = [herr EXCEPT ![c] = e]
    /\ hret' = [hret EXCEPT ![c] = [resp |-> r, err |-> e, returned |-> TRUE,
                                    ctxDoneAtClose |-> FALSE]]
    /\ gpc' = [gpc EXCEPT ![c] = "assignErr"]
    /\ UNCHANGED <<wrapper, now, pc, parent, ctxErr, deadline, done, err, sel, out,
                   inner, caller, ownTimer>>
    /\ UNCHANGED routerVars

\* The goroutine of call b: h.Handler is a timeoutHandler, and its
\* ServeResource is entered as call c with the context call b derived.
GoCallInner(b, c) ==
    /\ b # c
    /\ gpc[b] = "running"
    /\ WrapperOf(b).Handler = "inner"
    /\ pc[c] = "idle"
    /\ Enter(c, [kind |-> "derived", err |-> ctxErr[b]], inner, b)
    /\ gpc' = [gpc EXCEPT ![b] = "calling", ![c] = "running"]
    /\ UNCHANGED <<wrapper, now, done, herr, sel, hret, out, inner>>
    /\ UNCHANGED routerVars

\* The goroutine of call b: the inner call c has returned and resp is assigned.
GoInnerReturn(b, c) ==
    /\ gpc[b] = "calling"
    /\ caller[c] = b
    /\ pc[c] = "returned"
    /\ resp' = [resp EXCEPT ![b] = out[c].resp]
    /\ herr' = [herr EXCEPT ![b] = out[c].err]
    /\ hret' = [hret EXCEPT ![b] = [resp |-> out[c].resp, err |-> out[c].err,
                                    returned |-> TRUE, ctxDoneAtClose |-> FALSE]]
    /\ gpc' = [gpc EXCEPT ![b] = "assignErr"]
    /\ UNCHANGED <<wrapper, now, pc, parent, ctxErr, deadline, done, err, sel, out,
                   inner, caller, ownTimer>>
    /\ UNCHANGED routerVars

\* The goroutine: err is assigned.
GoAssignErr(c) ==
    /\ gpc[c] = "assignErr"
    /\ err' = [err EXCEPT ![c] = herr[c]]
    /\ gpc' = [gpc EXCEPT ![c] = "close"]
    /\ UNCHANGED <<wrapper, now, pc, parent, ctxErr, deadline, done, resp, herr, sel,
                   hret, out, inner, caller, ownTimer>>
    /\ UNCHANGED routerVars

\* The goroutine: close(done).
GoCloseDone(c) ==
    /\ gpc[c] = "close"
    /\ done' = [done EXCEPT ![c] = TRUE]
    /\ hret' = [hret EXCEPT ![c].ctxDoneAtClose = (ctxErr[c] # NoError)]
    /\ gpc' = [gpc EXCEPT ![c] = "exited"]
    /\ UNCHANGED <<wrapper, now, pc, parent, ctxErr, deadline, resp, err, herr, sel, out,
                   inner, caller, ownTimer>>
    /\ UNCHANGED routerVars

\* A select that waits for done alone.
SelectReadyDoneOnly(c) == IF done[c] THEN {"done"} ELSE {}

\* The cases of the select that can proceed.
SelectReady(c) ==
    (IF ctxErr[c] # NoError THEN {"ctx"} ELSE {}) \cup (IF done[c] THEN {"done"} ELSE {})

\* The select takes one of the cases that can proceed.
Select(c, branch) ==
    /\ pc[c] = "select"
    /\ branch \in SelectReady(c)
    /\ sel' = [sel EXCEPT ![c] = [branch |-> branch, ctxReady |-> "ctx" \in SelectReady(c),
                                  doneReady |-> "done" \in SelectReady(c)]]
    /\ pc' = [pc EXCEPT ![c] = "returnResp"]
    /\ UNCHANGED <<wrapper, now, gpc, parent, ctxErr, deadline, done, resp, err, herr,
                   hret, out, inner, caller, ownTimer>>
    /\ UNCHANGED routerVars

\* The response the return statement of the branch stores in resp.
ReturnedResp(c) == IF sel[c].branch = "ctx" THEN EmptyResponse ELSE resp[c]

\* Both return statements returning ctx.Err().
ReturnedErrAlwaysCtx(c) == ctxErr[c]

\* The error the return statement of the branch stores in err.
ReturnedErr(c) == IF sel[c].branch = "ctx" THEN ctxErr[c] ELSE err[c]

\* The return statement stores its first operand in resp.
ReturnAssignResp(c) ==
    /\ pc[c] = "returnResp"
    /\ resp' = [resp EXCEPT ![c] = ReturnedResp(c)]
    /\ pc' = [pc EXCEPT ![c] = "returnErr"]
    /\ UNCHANGED <<wrapper, now, gpc, parent, ctxErr, deadline, done, err, herr, sel,
                   hret, out, inner, caller, ownTimer>>
    /\ UNCHANGED routerVars

\* The return statement stores its second operand in err.
ReturnAssignErr(c) ==
    /\ pc[c] = "returnErr"
    /\ err' = [err EXCEPT ![c] = ReturnedErr(c)]
    /\ pc' = [pc EXCEPT ![c] = "defer"]
    /\ UNCHANGED <<wrapper, now, gpc, parent, ctxErr, deadline, done, resp, herr, sel,
                   hret, out, inner, caller, ownTimer>>
    /\ UNCHANGED routerVars

\* cancelFn never deferred: the derived context is left as it is.
CancelFnErrNotDeferred(c) == ctxErr[c]

\* Err() of the derived context after cancelFn().
CancelFnErr(c) == IF ctxErr[c] = NoError THEN Canceled ELSE ctxErr[c]

\* The deferred cancelFn runs.
RunDeferred(c) ==
    /\ pc[c] = "defer"
    /\ ctxErr' = Propagate(c, CancelFnErr(c))
    /\ parent' = Received(c, CancelFnErr(c))
    /\ pc' = [pc EXCEPT ![c] = "exitResp"]
    /\ UNCHANGED <<wrapper, now, gpc, deadline, done, resp, err, herr, sel, hret,
                   out, inner, caller, ownTimer>>
    /\ UNCHANGED routerVars

\* The function exits: resp is read for the caller.
ExitReadResp(c) ==
    /\ pc[c] = "exitResp"
    /\ out' = [out EXCEPT ![c].resp = resp[c]]
    /\ pc' = [pc EXCEPT ![c] = "exitErr"]
    /\ UNCHANGED <<wrapper, now, gpc, parent, ctxErr, deadline, done, resp, err, herr,
                   sel, hret, inner, caller, ownTimer>>
    /\ UNCHANGED routerVars

\* The function exits: err is read for the caller.
ExitReadErr(c) ==
    /\ pc[c] = "exitErr"
    /\ out' = [out EXCEPT ![c].err = err[c]]
    /\ pc' = [pc EXCEPT ![c] = "returned"]
    /\ UNCHANGED <<wrapper, now, gpc, parent, ctxErr, deadline, done, resp, err, herr,
                   sel, hret, inner, caller, ownTimer>>
    /\ UNCHANGED routerVars

TimeoutInit ==
    /\ wrapper = NoWrapper
    /\ now = 0
    /\ pc = [c \in Calls |-> "idle"]
    /\ gpc = [c \in Calls |-> "none"]
    /\ parent = [c \in Calls |-> [kind |-> "background", err |-> NoError]]
    /\ ctxErr = [c \in Calls |-> NoError]
    /\ deadline = [c \in Calls |-> 0]
    /\ done = [c \in Calls |-> FALSE]
    /\ resp = [c \in Calls |-> EmptyResponse]
    /\ err = [c \in Calls |-> NoError]
    /\ herr = [c \in Calls |-> NoError]
    /\ sel = [c \in Calls |-> NoSelect]
    /\ hret = [c \in Calls |-> NoReturn]
    /\ out = [c \in Calls |-> NoOut]
    /\ inner = NoWrapper
    /\ caller = [c \in Calls |-> NoCaller]
    /\ ownTimer = [c \in Calls |-> FALSE]

\* The steps of the caller's goroutine once the call is started.
CallerStep(c) ==
    \/ \E branch \in {"ctx", "done"} : Select(c, branch)
    \/ ReturnAssignResp(c)
    \/ ReturnAssignErr(c)
    \/ RunDeferred(c)
    \/ ExitReadResp(c)
    \/ ExitReadErr(c)

\* One wrapper, called once.
TimeoutNext ==
    \/ \E dur \in Durations, h \in WrappedHandlers : ResourceHandlerWithTimeout(dur, h)
    \/ \E c \in Solo, p \in ParentContexts : Start(c, p)
    \/ Tick
    \/ \E c \in Solo : TimerFire(c)
    \/ \E c \in Solo : ParentCancel(c)
    \/ \E c \in Solo, r \in HandlerResponses, e \in HandlerErrors : GoAssignResp(c, r, e)
    \/ \E c \in Solo : GoAssignErr(c)
    \/ \E c \in Solo : GoCloseDone(c)
    \/ \E c \in Solo : CallerStep(c)

\* The wrapped handlers that never return.
NeverReturns == {"never"}

\* A wrapper around a wrapper around a handler that never returns, called
\* once: the goroutine of the outer call makes the inner call.
NestedNext ==
    \/ \E d1 \in Durations, d2 \in Durations, h \in NeverReturns :
          NestedResourceHandlerWithTimeout(d1, d2, h)
    \/ \E c \in Solo, p \in ParentContexts : Start(c, p)
    \/ Tick
    \/ \E c \in Calls : TimerFire(c)
    \/ \E c \in Solo : ParentCancel(c)
    \/ \E b \in Solo, c \in Calls : GoCallInner(b, c)
    \/ \E b \in Solo, c \in Calls : GoInnerReturn(b, c)
    \/ \E c \in Calls : GoAssignErr(c)
    \/ \E c \in Calls : GoCloseDone(c)
    \/ \E c \in Calls : CallerStep(c)

\* The context each of the concurrent calls receives.
ConcurrentParents == {[kind |-> "background", err |-> NoError]}

\* What the run of the wrapped handler returns for the request of each of the
\* concurrent calls: a success for one, a failure with its own response for
\* the other.
HandlerRun ==
    [c1 |-> [resp |-> [StatusCode |-> 200, Body |-> "ok", HTTPHeader |-> Nil], err |-> NoError],
     c2 |-> [resp |-> [StatusCode |-> 500, Body |-> "failed", HTTPHeader |-> Nil],
             err |-> LeafFailure]]

\* One wrapper, called by several goroutines of the program at once.
ConcurrentNext ==
    \/ \E dur \in Durations, h \in WrappedHandlers : ResourceHandlerWithTimeout(dur, h)
    \/ \E c \in Calls, p \in ConcurrentParents : Start(c, p)
    \/ Tick
    \/ \E c \in Calls : TimerFire(c)
    \/ \E c \in Calls : GoAssignResp(c, HandlerRun[c].resp, HandlerRun[c].err)
    \/ \E c \in Calls : GoAssignErr(c)
    \/ \E c \in Calls : GoCloseDone(c)
    \/ \E c \in Calls : CallerStep(c)

Init == RouterInit /\ TimeoutInit

Next == RouterNext \/ InvokeNext \/ TimeoutNext \/ NestedNext \/ ConcurrentNext

RouterSpec == Init /\ [][RouterNext]_vars

InvokeSpec == Init /\ [][InvokeNext]_vars

TimeoutSpec == Init /\ [][TimeoutNext]_vars

\* The Go scheduler runs every goroutine that can run, the clock advances and
\* a timer that is due fires; nothing makes a wrapped handler return or a
\* caller cancel its context.
TimeoutFairness ==
    /\ WF_vars(Tick)
    /\ \A c \in Calls : WF_vars(TimerFire(c))
    /\ \A c \in Calls : WF_vars(CallerStep(c))
    /\ \A c \in Calls : WF_vars(GoAssignErr(c))
    /\ \A c \in Calls : WF_vars(GoCloseDone(c))

TimeoutFairSpec == Init /\ [][TimeoutNext]_vars /\ TimeoutFairness

\* The same scheduling for the nested calls: the goroutine of the outer call
\* makes the inner call and takes its result when it has returned.
NestedFairness ==
    /\ TimeoutFairness
    /\ \A b \in Calls, c \in Calls : WF_vars(GoCallInner(b, c))
    /\ \A b \in Calls, c \in Calls : WF_vars(GoInnerReturn(b, c))

ConcurrentSpec == Init /\ [][ConcurrentNext]_vars

NestedSpec == Init /\ [][NestedNext]_vars

NestedFairSpec == Init /\ [][NestedNext]_vars /\ NestedFairness

Spec == Init /\ [][Next]_vars


(***************************************************************************)
(* Claims on timeoutHandler                                                *)
(***************************************************************************)
Result(r, e) == [resp |-> r, err |-> e]

\* C1: whenever the select takes the ctx.Done() case, the caller receives
\* exactly the empty response and ctx.Err(), whatever the goroutine running
\* the wrapped handler does meanwhile.
C1_CtxBranchResult ==
    \A c \in Calls :
        (pc[c] = "returned" /\ sel[c].branch = "ctx") =>
            out[c] = Result(EmptyResponse, ctxErr[c])

\* C2 as stated: if the wrapped handler closes done while the derived context
\* is not yet done, the caller receives exactly what the handler returned.
C2_DoneBeforeDeadline ==
    \A c \in Calls :
        (pc[c] = "returned" /\ done[c] /\ ~hret[c].ctxDoneAtClose) =>
            out[c] = Result(hret[c].resp, hret[c].err)

\* C2 amended: if done is closed and the derived context is not done when the
\* select chooses, the done case is taken, and whenever the done case is
\* taken the caller receives exactly what the wrapped handler returned.
C2_DoneBranchResult ==
    \A c \in Calls :
        pc[c] = "returned" =>
            /\ (sel[c].doneReady /\ ~sel[c].ctxReady) => sel[c].branch = "done"
            /\ sel[c].branch = "done" =>
                  /\ hret[c].returned
                  /\ out[c] = Result(hret[c].resp, hret[c].err)

\* The handler returned a response and an error before the deadline and the
\* caller received them.
C2_Witness ==
    \E c \in Calls :
        /\ pc[c] = "returned"
        /\ sel[c].doneReady /\ ~sel[c].ctxReady
        /\ wrapper.Timeout > 0
        /\ out[c].err = LeafFailure
        /\ out[c].resp.StatusCode = 200

\* C3: with a wrapped handler that never returns and a parent context that is
\* never cancelled, the call returns, not before its timeout has elapsed,
\* with the empty response and the deadline-exceeded error.
C3_ReturnsAtDeadline ==
    \A c \in Calls :
        /\ (pc[c] # "idle" /\ wrapper.Handler = "never" /\ parent[c].kind = "background")
              ~> (pc[c] = "returned" /\ out[c] = Result(EmptyResponse, DeadlineExceeded))
        /\ []((pc[c] = "returned" /\ wrapper.Handler = "never"
                  /\ parent[c].kind = "background") => now >= deadline[c])

\* A call on a handler that never returns came back after a positive timeout.
C3_Witness ==
    \E c \in Calls :
        /\ pc[c] = "returned"
        /\ wrapper.Handler = "never"
        /\ parent[c].kind = "background"
        /\ wrapper.Timeout > 0
        /\ now >= deadline[c]
        /\ out[c].err = DeadlineExceeded


\* C14: every call has cancelled its derived context by the time it returns,
\* on success, on failure and on timeout or cancellation.
C14_ContextReleased ==
    \A c \in Calls :
        pc[c] \in {"exitResp", "exitErr", "returned"} => ctxErr[c] # NoError

\* A call that returned the handler's success before the deadline, its context
\* cancelled by nothing but the deferred cancelFn.
C14_Witness ==
    \E c \in Calls :
        /\ pc[c] = "returned"
        /\ sel[c].branch = "done"
        /\ ~sel[c].ctxReady
        /\ parent[c].kind = "background"
        /\ out[c].err = NoError
        /\ ctxErr[c] = Canceled

(***************************************************************************)
(* Claims on nested timeoutHandlers                                        *)
(***************************************************************************)
Min(a, b) == IF a <= b THEN a ELSE b

\* An outer call on a wrapper around a wrapper around a handler that never
\* returns, with a context nobody cancels.
NestedNever(c) ==
    /\ pc[c] # "idle"
    /\ caller[c] = External
    /\ wrapper.Handler = "inner"
    /\ inner.Handler = "never"
    /\ parent[c].kind = "background"

\* C12: an outer wrapper with timeout D1 around an inner wrapper with timeout
\* D2 around a handler that never returns: the outermost call returns with
\* the deadline-exceeded error, not before min(D1, D2) has elapsed since it
\* began; the context of the inner call is done by then; and the deadline of
\* the context an inner call derives is never later than the deadline of the
\* context it received.
C12_TightestDeadlineWins ==
    /\ \A c \in Calls :
          NestedNever(c) ~> (pc[c] = "returned" /\ out[c].err = DeadlineExceeded)
    /\ [](\A c \in Calls :
            (NestedNever(c) /\ pc[c] = "returned") =>
               /\ out[c] = Result(EmptyResponse, DeadlineExceeded)
               /\ now >= (deadline[c] - wrapper.Timeout) + Min(wrapper.Timeout, inner.Timeout)
               /\ \A d \in Calls : caller[d] = c => ctxErr[d] # NoError)
    /\ [](\A d \in Calls :
            caller[d] \in Calls =>
               /\ deadline[d] <= deadline[caller[d]]
               /\ ctxErr[caller[d]] # NoError => ctxErr[d] # NoError)

\* The inner timeout is the shorter one: the outer call returned the
\* deadline-exceeded error the inner call returned, before its own deadline.
C12_Witness ==
    \E c \in Calls, d \in Calls :
        /\ NestedNever(c)
        /\ pc[c] = "returned"
        /\ caller[d] = c
        /\ 0 < inner.Timeout /\ inner.Timeout < wrapper.Timeout
        /\ sel[c].branch = "done" /\ ~sel[c].ctxReady
        /\ now < deadline[c]
        /\ ctxErr[d] = DeadlineExceeded
        /\ out[c].err = DeadlineExceeded

\* The outer timeout is the shorter one: the inner call has no timer of its
\* own and its context expired with the outer one.
C12_WitnessOuterShorter ==
    \E c \in Calls, d \in Calls :
        /\ NestedNever(c)
        /\ pc[c] = "returned"
        /\ caller[d] = c
        /\ 0 < wrapper.Timeout /\ wrapper.Timeout < inner.Timeout
        /\ ~ownTimer[d]
        /\ deadline[d] = deadline[c]
        /\ ctxErr[d] = DeadlineExceeded
        /\ out[c].err = DeadlineExceeded

(***************************************************************************)
(* Claims on concurrent calls of one timeoutHandler                        *)
(***************************************************************************)
\* Everything that belongs to one call: where its two goroutines stand, its
\* contexts, its done channel, its named results and what its caller receives.
CallState(c) ==
    <<pc[c], gpc[c], parent[c], ctxErr[c], deadline[c], ownTimer[c], caller[c], done[c],
      resp[c], err[c], herr[c], sel[c], hret[c], out[c]>>

\* C15: concurrent calls of the same timeoutHandler value are independent:
\* no step of one call (its handler returning, its timer firing, its select,
\* its return) changes anything that belongs to another call, and what a
\* caller receives is made of what its own handler run returned and of the
\* empty response and Err() of its own derived context, nothing else.
C15_CallsIndependent ==
    /\ [][\A c \in Calls, d \in Calls :
            (c # d /\ CallState(c)' # CallState(c)) => CallState(d)' = CallState(d)]_vars
    /\ [](\A c \in Calls :
            pc[c] = "returned" =>
               /\ out[c].resp \in {EmptyResponse} \cup
                                    (IF hret[c].returned THEN {hret[c].resp} ELSE {})
               /\ out[c].err \in {ctxErr[c]} \cup
                                   (IF hret[c].returned THEN {hret[c].err} ELSE {})
               /\ hret[c].returned => hret[c].resp = HandlerRun[c].resp
               /\ hret[c].returned => hret[c].err = HandlerRun[c].err)

\* Two calls began at the same time on the same wrapper: one timed out and
\* received the deadline-exceeded error while the other received what its
\* own handler run returned.
C15_Witness ==
    \E c \in Calls, d \in Calls :
        /\ c # d
        /\ pc[c] = "returned" /\ pc[d] = "returned"
        /\ caller[c] = External /\ caller[d] = External
        /\ wrapper.Timeout > 0
        /\ deadline[c] = deadline[d]
        /\ sel[c].branch = "ctx"
        /\ out[c] = Result(EmptyResponse, DeadlineExceeded)
        /\ sel[d].branch = "done"
        /\ hret[c].returned
        /\ out[d] = Result(HandlerRun[d].resp, HandlerRun[d].err)

\* C17: what the caller receives is either exactly the pair the wrapped
\* handler returned or exactly (empty response, ctx.Err()), never a mixture.
C17_AllOrNothing ==
    \A c \in Calls :
        pc[c] = "returned" =>
            \/ hret[c].returned /\ out[c] = Result(hret[c].resp, hret[c].err)
            \/ out[c] = Result(EmptyResponse, ctxErr[c])

(***************************************************************************)
(* Observations on the most recent operation                               *)
(***************************************************************************)
Routers == ResourceRouters \cup MethodRouters

IsDispatch == last.kind = "Dispatch"

\* Router s served the most recent dispatch, as its top or as a nested handler.
Ran(s) ==
    /\ IsDispatch
    /\ \/ last.top = s
       \/ \E i \in DOMAIN last.out.calls : last.out.calls[i].handler = s

\* The calls router s made while serving the most recent dispatch.
CallsBy(s) == SelectSeq(last.out.calls, LAMBDA c : c.by = s)

\* What router s returned to its caller in the most recent dispatch.
Returned(s) ==
    IF last.top = s
    THEN [resp |-> last.out.resp, err |-> last.out.err]
    ELSE LET i == CHOOSE j \in DOMAIN last.out.calls : last.out.calls[j].handler = s
         IN [resp |-> last.out.calls[i].resp, err |-> last.out.calls[i].err]

\* The Handle calls on router s whose key is k, and those whose key is k up
\* to letter case.
RegsExact(s, k) == {i \in DOMAIN regLog : regLog[i].router = s /\ regLog[i].key = k}

RegsAnyCase(s, k) ==
    {i \in DOMAIN regLog : regLog[i].router = s /\ ToUpper(regLog[i].key) = ToUpper(k)}

\* The Handle calls on router s that registered under dispatch key k: the
\* resource identifier as given, the method name in upper case.
RegsUnder(s, k) ==
    {i \in DOMAIN regLog :
        /\ regLog[i].router = s
        /\ k = (IF s \in MethodRouters THEN ToUpper(regLog[i].key) ELSE regLog[i].key)}

Latest(I) == regLog[CHOOSE i \in I : \A j \in I : j <= i].handler

\* The dispatch key router s reads from a request.
RequestKey(s, req) == IF s \in MethodRouters THEN req.HTTPMethod ELSE req.Resource

IsResourceMiss(e, req) ==
    /\ e # NoError
    /\ e.fmt = "resource handler not found for %s"
    /\ \E i \in DOMAIN e.args : e.args[i] = req.Resource

IsMethodMiss(e, req) ==
    /\ e # NoError
    /\ e.fmt = "method handler not found for %s:%s"
    /\ \E i \in DOMAIN e.args : e.args[i] = req.Resource
    /\ \E i \in DOMAIN e.args : e.args[i] = req.HTTPMethod

(***************************************************************************)
(* Claims on the routers                                                   *)
(***************************************************************************)

\* C4: method dispatch is case-insensitive: a request whose method equals a
\* registered method up to letter case reaches the handler registered for it.
C4_CaseInsensitiveDispatch ==
    \A s \in MethodRouters :
        (Ran(s) /\ RegsAnyCase(s, last.req.HTTPMethod) # {}) =>
            /\ Len(CallsBy(s)) = 1
            /\ CallsBy(s)[1].handler = Latest(RegsAnyCase(s, last.req.HTTPMethod))

C6_UnregisteredResource ==
    \A s \in ResourceRouters :
        (Ran(s) /\ RegsExact(s, last.req.Resource) = {}) =>
            /\ Returned(s).resp = EmptyResponse
            /\ IsResourceMiss(Returned(s).err, last.req)
            /\ CallsBy(s) = <<>>

\* An unregistered resource dispatched to a router that holds other resources.
C6_Witness ==
    \E s \in ResourceRouters :
        /\ Ran(s)
        /\ RegsExact(s, last.req.Resource) = {}
        /\ DOMAIN resources[s] # {}

\* C7: a method with no registered handler on a method router gets an empty
\* response and a miss error naming the resource and the method, and no
\* handler is invoked.
C7_UnregisteredMethod ==
    \A s \in MethodRouters :
        (Ran(s) /\ RegsAnyCase(s, last.req.HTTPMethod) = {}) =>
            /\ Returned(s).resp = EmptyResponse
            /\ IsMethodMiss(Returned(s).err, last.req)
            /\ CallsBy(s) = <<>>

\* An unregistered method reaching a method router nested in a resource router.
C7_Witness ==
    \E s \in MethodRouters :
        /\ Ran(s)
        /\ last.top # s
        /\ RegsAnyCase(s, last.req.HTTPMethod) = {}
        /\ DOMAIN methods[s] # {}

\* C8: chaining: a resource router holding a method router holding leaves
\* dispatches every registered (resource, method) to its leaf, with methods
\* compared up to letter case; "/orders" -> GET -> leaf 200 answers
\* {"/orders", "get"} with status 200 and no error.
C8_Chaining ==
    \A s \in ResourceRouters, m \in MethodRouters :
        (IsDispatch /\ last.top = s) =>
            /\ RegsExact(s, last.req.Resource) = {} =>
                  /\ last.out.resp = EmptyResponse
                  /\ IsResourceMiss(last.out.err, last.req)
            /\ ( /\ RegsExact(s, last.req.Resource) # {}
                 /\ Latest(RegsExact(s, last.req.Resource)) = m
                 /\ RegsAnyCase(m, last.req.HTTPMethod) = {} ) =>
                  /\ last.out.resp = EmptyResponse
                  /\ IsMethodMiss(last.out.err, last.req)
            /\ ( /\ RegsExact(s, last.req.Resource) # {}
                 /\ Latest(RegsExact(s, last.req.Resource)) = m
                 /\ RegsAnyCase(m, last.req.HTTPMethod) # {} ) =>
                  LET leaf == Latest(RegsAnyCase(m, last.req.HTTPMethod))
                  IN /\ Len(last.out.calls) = 2
                     /\ last.out.calls[2].handler = leaf
                     /\ last.out.resp = LeafServe(leaf, last.ctx, last.req).resp
                     /\ last.out.err = LeafServe(leaf, last.ctx, last.req).err

\* C9: resource matching is exact: a resource router invokes a handler only
\* for a request whose identifier equals a registered one character for
\* character, and any other identifier is a miss.
C9_ExactResourceMatch ==
    \A s \in ResourceRouters :
        Ran(s) =>
            /\ CallsBy(s) # <<>> =>
                  /\ RegsExact(s, last.req.Resource) # {}
                  /\ CallsBy(s)[1].handler = Latest(RegsExact(s, last.req.Resource))
            /\ RegsExact(s, last.req.Resource) = {} =>
                  /\ CallsBy(s) = <<>>
                  /\ IsResourceMiss(Returned(s).err, last.req)

\* A request whose identifier differs from a registered one in letter case only.
C9_Witness ==
    \E s \in ResourceRouters :
        /\ Ran(s)
        /\ RegsExact(s, last.req.Resource) = {}
        /\ RegsAnyCase(s, last.req.Resource) # {}
        /\ CallsBy(s) = <<>>

\* C10: pass-through on a hit: every router on the path invokes its handler
\* once, with the context and request it received, and returns what that
\* handler returned, down to the leaf.
C10_PassThrough ==
    IsDispatch =>
        LET calls == last.out.calls
        IN /\ \A i \in DOMAIN calls :
                /\ calls[i].ctx = last.ctx
                /\ calls[i].req = last.req
                /\ calls[i].resp = last.out.resp
                /\ calls[i].err = last.out.err
                /\ calls[i].by = (IF i = 1 THEN last.top ELSE calls[i - 1].handler)
           /\ \A s \in Routers : Len(CallsBy(s)) <= 1
           /\ (calls # <<>> /\ calls[Len(calls)].handler \in Leaves) =>
                LET leaf == LeafServe(calls[Len(calls)].handler, last.ctx, last.req)
                IN last.out.resp = leaf.resp /\ last.out.err = leaf.err

\* A dispatch through two routers to a leaf that returns a response and an error.
C10_Witness ==
    /\ IsDispatch
    /\ Len(last.out.calls) = 2
    /\ last.out.err = LeafFailure
    /\ last.out.resp.StatusCode = 500

\* C13: ServeMethod.Handle stores under the upper-cased method, so two
\* spellings of one method leave one entry, holding the handler registered
\* last.
C13_MethodKeysNormalized ==
    \A s \in MethodRouters :
        /\ DOMAIN methods[s] = {ToUpper(regLog[i].key) : i \in {j \in DOMAIN regLog : regLog[j].router = s}}
        /\ \A k \in DOMAIN methods[s] :
              /\ k = ToUpper(k)
              /\ methods[s][k] = Latest(RegsAnyCase(s, k))

\* Two spellings of one method registered with different handlers, one entry left.
C13_Witness ==
    \E s \in MethodRouters :
        /\ \E i, j \in DOMAIN regLog :
              /\ i < j
              /\ regLog[i].router = s /\ regLog[j].router = s
              /\ regLog[i].key # regLog[j].key
              /\ ToUpper(regLog[i].key) = ToUpper(regLog[j].key)
              /\ regLog[i].handler # regLog[j].handler
        /\ Cardinality(DOMAIN methods[s]) = 1

\* C16: a dispatch leaves every registry as it was, on a hit and on a miss.
C16_DispatchLeavesRegistries ==
    [][last'.kind = "Dispatch" => (resources' = resources /\ methods' = methods)]_vars

\* A dispatch that hit in the resource router and missed in the method router
\* nested in it, both holding entries.
C16_Witness ==
    /\ IsDispatch
    /\ Len(last.out.calls) = 1
    /\ last.out.calls[1].handler \in MethodRouters
    /\ IsMethodMiss(last.out.err, last.req)
    /\ \A s \in ResourceRouters : DOMAIN resources[s] # {}
    /\ \A s \in MethodRouters : DOMAIN methods[s] # {}

\* The key a Handle call on router s stores under.
StoredKey(s, key) == IF s \in MethodRouters THEN ToUpper(key) ELSE key

\* The map of router s.
Registry(s) == IF s \in MethodRouters THEN methods[s] ELSE resources[s]

\* C18: a Handle call sets the entry of its (normalized) key, leaves every
\* other entry of that router and every other router as they were, and
\* returns the router it was called on.
C18_HandleFrame ==
    [][regLog' # regLog =>
         \A r \in Routers :
            r = regLog'[Len(regLog')].router =>
               LET e == regLog'[Len(regLog')]
                   k == StoredKey(r, e.key)
               IN /\ last'.kind = "Handle"
                  /\ last'.returned = r
                  /\ k \in DOMAIN Registry(r)'
                  /\ Registry(r)'[k] = e.handler
                  /\ DOMAIN Registry(r)' = DOMAIN Registry(r) \cup {k}
                  /\ \A x \in DOMAIN Registry(r) : x # k => Registry(r)'[x] = Registry(r)[x]
                  /\ \A s \in Routers : s # r => Registry(s)' = Registry(s)
      ]_vars

\* A Handle call on a router that holds another entry, with the other router
\* holding entries too.
C18_Witness ==
    /\ last.kind = "Handle"
    /\ Cardinality(DOMAIN Registry(last.router)) = 2
    /\ \A s \in Routers : DOMAIN Registry(s) # {}

\* The calls the proxy itself made in the most recent Invoke.
ProxyCalls == SelectSeq(last.out.calls, LAMBDA c : c.by = "proxy")

\* C11: Invoke calls the top-level handler once for a payload that decodes and
\* not at all for one that does not; a decode failure comes back as an error
\* with no output payload.
C11_InvokeOncePerDecodedRequest ==
    last.kind = "Invoke" =>
        IF last.payload.json = "object"
        THEN /\ Len(ProxyCalls) = 1
             /\ ProxyCalls[1].handler = last.top
             /\ ProxyCalls[1].ctx = last.ctx
             /\ ProxyCalls[1].req = [Resource |-> last.payload.resource,
                                     HTTPMethod |-> last.payload.httpMethod]
        ELSE /\ last.out.calls = <<>>
             /\ last.out.out = NilPayload
             /\ last.out.err # NoError
             /\ last.out.err.fmt = "invalid lambda event, expect %T, %w"

\* A payload that does not decode handed to a proxy built on a leaf handler,
\* which is not called.
C11_WitnessDecodeFailure ==
    /\ last.kind = "Invoke"
    /\ last.payload.json # "object"
    /\ last.top \in Leaves
    /\ last.out.calls = <<>>

\* A payload that decodes, routed through two routers to a leaf.
C11_Witness ==
    /\ last.kind = "Invoke"
    /\ last.payload.json = "object"
    /\ Len(last.out.calls) = 3
    /\ Len(ProxyCalls) = 1

====
